---- MODULE Spec2Model ----
\* Order creation, status update and product update handlers of the ESDALY
\* backend (routes/order.routes.js, routes/product.routes.js and the Mongoose
\* models Product and Order), as a state machine over the document store.
\*
\* Every `await` of a handler is a suspension point: the store operation it
\* waits for and the synchronous code that follows it, up to the next await,
\* form one action.  Handlers of different requests interleave at these
\* points; `par` is the number of requests the server has in flight at most.
\*
\* Mongoose facts the model relies on:
\*   - doc.save() of a loaded document validates it against the schema (the
\*     `min` validators) and throws on failure, before anything is written;
\*   - doc.save() writes ($set) the modified paths only, with the values of
\*     the in-memory document, whatever the store holds by then;
\*   - a path set to the value it already has is not modified;
\*   - the unique index on orderNumber makes the insert of a second order
\*     with an equal orderNumber throw (E11000).
\* The store itself is reliable: no operation fails for infrastructure
\* reasons.  All requests of a run fall on one calendar day, so the
\* YYYYMMDD part of an order number is the same for all and is left out.
EXTENDS Integers, Sequences, FiniteSets, TLC

\* ---------------------------------------------------------------- bounds
MaxReq == 3        \* requests issued in a run
MaxPar == 2        \* requests in flight at once
MaxQty == 2        \* largest quantity of an item
MaxItems == 2      \* longest item list of a CreateOrder request
InitStock == 3     \* stock.quantity of every product at the start
MaxForeign == 100  \* orders created by clients other than the modelled ones

\* ------------------------------------------------------ program constants
ProbeLimit == 100  \* `if (counter > 100)` of the order-number probe loop
MinStock == 0      \* productSchema.stock.quantity `min: 0`
MinPrice == 0      \* productSchema.price `min: [0, ...]`
MinItemQty == 1    \* orderSchema.items.quantity `min: 1`

Products == {"p1", "p2"}
Req == 1 .. MaxReq
InitPrice == 1     \* price of every product at the start

\* a validator that lets 'refunded' through as well
ValidStatusesAndRefunded ==
  {"pending", "confirmed", "processing", "shipped", "delivered", "cancelled",
   "refunded"}

\* body('status').isIn([...]) and orderSchema.status.enum
ValidStatuses ==
  {"pending", "confirmed", "processing", "shipped", "delivered", "cancelled"}

\* the status values a request may carry: the valid ones and one that is not
StatusInputs == ValidStatuses \cup {"refunded"}

\* a product id no document has, and an item without a product id
UnknownId == "p9"

NoId == ""

\* an item of a request body: {product, quantity}; the items of the last
\* two kinds are rejected whatever their quantity
Items ==
  [product : Products, quantity : 1 .. MaxQty]
    \cup {[product |-> UnknownId, quantity |-> 1], [product |-> NoId, quantity |-> 1]}

RECURSIVE TotalQty(_)
TotalQty(l) == IF l = <<>> THEN 0 ELSE Head(l).quantity + TotalQty(Tail(l))

ItemLists == UNION {[1 .. n -> Items] : n \in 0 .. MaxItems}

\* the body of PUT /api/products/:id: price (0: not supplied),
\* stock.trackInventory ("keep": no stock object supplied) and isActive
\* ("keep": not supplied)
\* and name ("": not supplied)
StockPatches ==
  {[price |-> 2, track |-> "keep", active |-> "keep", name |-> ""],
   [price |-> 0, track |-> "off", active |-> "keep", name |-> ""],
   [price |-> 0, track |-> "on", active |-> "keep", name |-> ""]}

Patches ==
  StockPatches \cup {[price |-> 0, track |-> "keep", active |-> "off", name |-> ""]}

\* the bodies of PUT /api/products/:id that change what an order item
\* captures of the product: its price, its name
SnapshotPatches ==
  {[price |-> 2, track |-> "keep", active |-> "keep", name |-> ""],
   [price |-> 0, track |-> "keep", active |-> "keep", name |-> "renamed"]}

\* trackingNumber ("": not supplied) and estimatedDelivery (0: not supplied)
\* of an UpdateStatus body
NoTracking == [trackingNumber |-> "", estimatedDelivery |-> 0]

TrackingInputs == [trackingNumber : {"", "TN1", "TN2"}, estimatedDelivery : {0, 7}]

\* validPaymentMethods
ValidPaymentMethods == {"cash", "card", "bank_transfer", "stripe"}

\* the payment object of a CreateOrder body (method "": no payment object)
NoPayment == [method |-> "", transactionId |-> FALSE]

Payments ==
  {NoPayment, [method |-> "paypal", transactionId |-> FALSE],
   [method |-> "bank_transfer", transactionId |-> FALSE],
   [method |-> "bank_transfer", transactionId |-> TRUE]}

\* the payment objects of the requests that run one after another: none, and
\* the two that the payment checks refuse
SeqPayments == {payment \in Payments : ~payment.transactionId}

\* A field of the pricing object of a CreateOrder body: absent, or a number.
Absent == [given |-> FALSE, v |-> 0]

Num(x) == [given |-> TRUE, v |-> x]

\* the pricing object the requests carry when pricing is not what is studied
DefaultPricing ==
  [subtotal |-> Absent, shipping |-> Absent, tax |-> Absent, discount |-> Absent,
   total |-> Num(1)]

\* the pricing objects a CreateOrder body may carry
PricingInputs ==
  [subtotal : {Absent, Num(0), Num(5)}, shipping : {Absent, Num(-1), Num(1)},
   tax : {Absent, Num(1)}, discount : {Absent, Num(1), Num(9)},
   total : {Absent, Num(-1), Num(0), Num(7)}]

\* the bodies of the requests that run concurrently
ConcProducts == {"p1"}

ConcLists ==
  {l \in ItemLists :
     /\ \A k \in 1 .. Len(l) : l[k].product \in ConcProducts
     /\ TotalQty(l) <= MaxQty}

ConcStatuses == StatusInputs

ConcPatches == StockPatches

ConcPayments == {NoPayment}

VARIABLES
  products,  \* the Product collection: id -> document
  orders,    \* the Order collection: id -> document (exists = FALSE: none)
  req,       \* the requests: id -> handler state (inputs, locals, position)
  restores,  \* history: order id -> restore loops that wrote a product for it
  par,       \* how many requests the server handles at once
  foreign    \* the sequence numbers n of the orders ORD-<date>-n that other
             \* clients created, for products other than the modelled ones

vars == <<products, orders, req, restores, par, foreign>>

\* ------------------------------------------------------------- documents
NoNumber == [prefix |-> "", kind |-> "none", n |-> 0]

NoPricing == [subtotal |-> 0, shipping |-> 0, tax |-> 0, discount |-> 0, total |-> 0]

NoOrder ==
  [exists |-> FALSE, orderNumber |-> NoNumber, items |-> <<>>, isTest |-> FALSE,
   status |-> "none", shippedAt |-> 0, deliveredAt |-> 0, cancelledAt |-> 0,
   pricing |-> NoPricing, payment |-> NoPayment,
   trackingNumber |-> "", estimatedDelivery |-> 0]

NoDoc ==
  [exists |-> FALSE, price |-> 0, isActive |-> FALSE, trackInventory |-> FALSE,
   quantity |-> 0, salesCount |-> 0, salesRevenue |-> 0, name |-> ""]

NoPatch == [price |-> 0, track |-> "keep", active |-> "keep", name |-> ""]

\* productSchema defaults (isActive, trackInventory: true; sales: 0)
InitProduct ==
  [exists |-> TRUE, price |-> InitPrice, isActive |-> TRUE, trackInventory |-> TRUE,
   quantity |-> InitStock, salesCount |-> 0, salesRevenue |-> 0, name |-> "name"]

Idle ==
  [kind |-> "none", pc |-> "idle", result |-> "none",
   isTest |-> FALSE, items |-> <<>>, i |-> 0, orderItems |-> <<>>,
   count |-> 0, counter |-> 0, orderNumber |-> NoNumber,
   doc |-> NoDoc, order |-> 0, status |-> "none", odoc |-> NoOrder, mod |-> {},
   product |-> "none", patch |-> NoPatch, applied |-> 0,
   pricing |-> DefaultPricing, payment |-> NoPayment, tracking |-> NoTracking]

\* A handler that has responded: its locals are gone; what stays is what the
\* request was (kind, isTest), its response, and how many product.save()
\* calls of it succeeded.
Finished(q, res) ==
  [Idle EXCEPT !.kind = q.kind, !.pc = "done", !.result = res, !.isTest = q.isTest,
               !.applied = q.applied]

\* the response is sent but the handler goes on to Order.create, as it would
\* with `return` left out
RejectedWithoutReturn(q, res) ==
  IF q.items = <<>>
  THEN [Idle EXCEPT !.kind = q.kind, !.pc = "done", !.result = res, !.i = q.i]
  ELSE [q EXCEPT !.pc = "count", !.result = res, !.i = 0, !.product = "none"]

\* A handler that has answered 400 from the validation phase: `i` stays, the
\* position of the item that failed (0: the request failed before the loop),
\* and with it the product id of that item.
Rejected(q, res) ==
  [Idle EXCEPT !.kind = q.kind, !.pc = "done", !.result = res, !.i = q.i,
               !.product = IF q.i > 0 THEN q.items[q.i].product ELSE "none"]

\* Product.findById(id)
Lookup(id) == IF id \in Products THEN products[id] ELSE NoDoc

\* `product` alone as the guard of the stock update and restore loops
TrackedOrNot(product) == product.exists

\* `product && product.stock.trackInventory`
Tracked(product) == product.exists /\ product.trackInventory

InFlight(r) == req[r].pc \notin {"idle", "done"}

Quiescent == \A r \in Req : ~InFlight(r)

\* the next request is admitted when a worker is free
CanStart(r) ==
  /\ req[r].pc = "idle"
  /\ \A x \in Req : x < r => req[x].pc # "idle"
  /\ Cardinality({x \in Req : InFlight(x)}) < par

\* new Date() / Date.now() in request r's handler: a value > 0 that tells
\* the requests apart
Now(r) == r

\* ------------------------------------------------------------ validators
\* productSchema without `min: 0` on stock.quantity
ProductValidNoMinStock(d) == d.price >= MinPrice

\* productSchema: price min 0, stock.quantity min 0
ProductValid(d) == d.price >= MinPrice /\ d.quantity >= MinStock

\* orderSchema.items.quantity min 1
OrderValid(items) == \A k \in 1 .. Len(items) : items[k].quantity >= MinItemQty

\* Order.findOne({orderNumber: num, _id: {$ne: self}}) finds no document
NumberFreeFor(num, self) ==
  /\ \A o \in Req \ {self} : orders[o].exists => orders[o].orderNumber # num
  /\ ~(num.prefix = "ORD" /\ num.kind = "seq" /\ num.n \in foreign)

\* no document at all has this orderNumber
NumberFree(num) == NumberFreeFor(num, 0)

\* pre('save') on every save: the guard left out
NumberUnsetAlways(num) == TRUE

\* pre('save'): `!this.orderNumber || this.orderNumber.trim() === ''`
NumberUnset(num) == num.kind = "none"

\* schema without `unique: true`
NoUniqueIndex(num) == TRUE

\* the unique index on orderSchema.orderNumber lets a document with this
\* number in
UniqueIndexAllows(num) == NumberFree(num)

\* the store at the start: the products, no order, no request yet
InitStore ==
  /\ products = [p \in Products |-> InitProduct]
  /\ orders = [o \in Req |-> NoOrder]
  /\ req = [r \in Req |-> Idle]
  /\ restores = [o \in Req |-> 0]
  /\ foreign = {}

Init == InitStore /\ par = MaxPar

InitSeq == InitStore /\ par = 1

\* ------------------------------------------------ POST /api/orders (create)
\* the order number `${prefix}-${date}-${String(n).padStart(5, '0')}`;
\* padStart never truncates, so the text is one-to-one in (prefix, n)
SeqNumber(isTest, n) ==
  [prefix |-> IF isTest THEN "TEST" ELSE "ORD", kind |-> "seq", n |-> n]

\* the number after the probe budget: `${prefix}-${date}-${Date.now()}`
ClockNumber(isTest, t) ==
  [prefix |-> IF isTest THEN "TEST" ELSE "ORD", kind |-> "clock", n |-> t]

\* `subtotal += itemPrice * item.quantity` over the validation loop
RECURSIVE Subtotal(_)
Subtotal(orderItems) ==
  IF orderItems = <<>> THEN 0
  ELSE Head(orderItems).price * Head(orderItems).quantity + Subtotal(Tail(orderItems))

\* `x || d`: d when x is undefined or 0
OrElse(x, d) == IF x.given /\ x.v # 0 THEN x.v ELSE d

\* finalPricing; the default total adds up the local `subtotal`, the sum over
\* the items, not finalPricing.subtotal
FinalPricing(pricing, subtotal) ==
  [subtotal |-> OrElse(pricing.subtotal, subtotal),
   shipping |-> OrElse(pricing.shipping, 0),
   tax |-> OrElse(pricing.tax, 0),
   discount |-> OrElse(pricing.discount, 0),
   total |-> OrElse(pricing.total,
                    subtotal + OrElse(pricing.shipping, 0) + OrElse(pricing.tax, 0)
                      - OrElse(pricing.discount, 0))]

\* body('pricing.total').isFloat({ min: 0 })
PricingAccepted(pricing) == pricing.total.given /\ pricing.total.v >= 0

\* the response of the payment checks ("": they pass)
PaymentError(payment) ==
  IF payment.method # "" /\ payment.method \notin ValidPaymentMethods
  THEN "InvalidPayment"
  ELSE IF payment.method = "bank_transfer" /\ ~payment.transactionId
  THEN "MissingTransactionId"
  ELSE ""

\* the payment object handed to Order.create: method `|| 'cash'`, the
\* transactionId when there is one (status is 'pending' for every order)
OrderPayment(payment) ==
  [method |-> IF payment.method = "" THEN "cash" ELSE payment.method,
   transactionId |-> payment.transactionId]

\* One pass of the validation loop on handler state q: the product is read,
\* checked, and its price is captured on the order item.  After the last
\* item Order.create validates the document and the pre-save hook starts.
Validated(q) ==
  LET item == q.items[q.i]
      product == Lookup(item.product)
      pushed == Append(q.orderItems,
                  [product |-> item.product, name |-> product.name,
                   price |-> product.price, quantity |-> item.quantity])
  IN IF item.product = NoId THEN Rejected(q, "MissingProductId")
     ELSE IF ~product.exists THEN Rejected(q, "ProductNotFound")
     ELSE IF ~product.isActive THEN Rejected(q, "ProductUnavailable")
     ELSE IF ~q.isTest /\ product.trackInventory
             /\ product.quantity < item.quantity
     THEN Rejected(q, "InsufficientStock")
     ELSE IF q.i < Len(q.items)
     THEN [q EXCEPT !.i = q.i + 1, !.orderItems = pushed]
     ELSE IF ~OrderValid(pushed) THEN Finished(q, "ServerError")
     ELSE [q EXCEPT !.pc = "count", !.i = 0, !.orderItems = pushed]

\* The request arrives: express-validator's items and pricing.total checks,
\* the payment checks, then the handler runs through the first pass of the
\* validation loop.  The request carries a shippingAddress, so that
\* validator passes.
StartCreate(r, items, isTest, payment, pricing) ==
  /\ CanStart(r)
  /\ LET q == [Idle EXCEPT !.kind = "create", !.pc = "validate",
                           !.isTest = isTest, !.items = items, !.pricing = pricing,
                           !.payment = payment]
     IN req' = [req EXCEPT ![r] =
          IF Len(items) < 1 \/ ~PricingAccepted(pricing)
          THEN Rejected(q, "ValidationError")
          ELSE IF PaymentError(payment) # "" THEN Rejected(q, PaymentError(payment))
          ELSE Validated([q EXCEPT !.i = 1])]
  /\ UNCHANGED <<products, orders, restores, par, foreign>>

\* a later pass of the validation loop
ValidateItem(r) ==
  /\ req[r].pc = "validate"
  /\ req' = [req EXCEPT ![r] = Validated(req[r])]
  /\ UNCHANGED <<products, orders, restores, par, foreign>>

\* pre('save'): Order.countDocuments() and the first candidate number
CountOrders(r) ==
  /\ req[r].pc = "count"
  /\ LET q == req[r]
         count == Cardinality({o \in Req : orders[o].exists}) + Cardinality(foreign)
         isTest == IF q.kind = "create" THEN q.isTest ELSE q.odoc.isTest
     IN req' = [req EXCEPT ![r] =
          [q EXCEPT !.pc = "probe", !.count = count, !.counter = 1,
                    !.orderNumber = SeqNumber(isTest, count + 1)]]
  /\ UNCHANGED <<products, orders, restores, par, foreign>>

\* the loop without its safety limit
BudgetNeverSpent(counter) == FALSE

\* `if (counter > 100)`
BudgetSpent(counter) == counter > ProbeLimit

\* pre('save'): one Order.findOne({orderNumber}) of the probe loop.  The
\* hook over, the document is written: inserted by Order.create, updated by
\* order.save() with orderNumber among the modified paths.
ProbeNumber(r) ==
  /\ req[r].pc = "probe"
  /\ LET q == req[r]
         isTest == IF q.kind = "create" THEN q.isTest ELSE q.odoc.isTest
         hooked(num) ==
           IF q.kind = "create" THEN [q EXCEPT !.pc = "insert", !.orderNumber = num]
           ELSE [q EXCEPT !.pc = "save", !.count = 0, !.counter = 0,
                          !.orderNumber = NoNumber, !.odoc.orderNumber = num,
                          !.mod = @ \cup {"orderNumber"}]
     IN req' = [req EXCEPT ![r] =
          IF NumberFreeFor(q.orderNumber, q.order)
          THEN hooked(q.orderNumber)
          ELSE IF BudgetSpent(q.counter + 1)
          THEN hooked(ClockNumber(isTest, Now(r)))
          ELSE [q EXCEPT !.counter = q.counter + 1,
                         !.orderNumber =
                           SeqNumber(isTest, q.count + 1 + q.counter)]]
  /\ UNCHANGED <<products, orders, restores, par, foreign>>

\* Order.create: the insert.  A duplicate orderNumber throws, the handler's
\* catch answers 500.
InsertOrder(r) ==
  /\ req[r].pc = "insert"
  /\ LET q == req[r]
     IN IF UniqueIndexAllows(q.orderNumber)
        THEN /\ orders' = [orders EXCEPT ![r] =
                  [exists |-> TRUE, orderNumber |-> q.orderNumber,
                   items |-> q.orderItems, isTest |-> q.isTest,
                   status |-> "pending", shippedAt |-> 0, deliveredAt |-> 0,
                   cancelledAt |-> 0,
                   pricing |-> FinalPricing(q.pricing, Subtotal(q.orderItems)),
                   payment |-> OrderPayment(q.payment),
                   trackingNumber |-> "", estimatedDelivery |-> 0]]
             /\ req' = [req EXCEPT ![r] =
                  [q EXCEPT !.pc = "upd_read", !.i = 1, !.orderItems = <<>>,
                            !.count = 0, !.counter = 0,
                            !.orderNumber = NoNumber,
                            !.pricing = DefaultPricing, !.payment = NoPayment]]
        ELSE /\ orders' = orders
             /\ req' = [req EXCEPT ![r] = Finished(q, "ServerError")]
  /\ UNCHANGED <<products, restores, par, foreign>>

\* the handler after item i of a loop over n items: the next item (at
\* position `next`), or what follows the loop (`end`)
AfterItem(q, n, next, end) ==
  IF q.i < n THEN [q EXCEPT !.pc = next, !.i = q.i + 1, !.doc = NoDoc]
  ELSE end

\* stock update loop: Product.findById and the in-memory update
UpdRead(r) ==
  /\ req[r].pc = "upd_read"
  /\ LET q == req[r]
         item == q.items[q.i]
         product == Lookup(item.product)
     IN req' = [req EXCEPT ![r] =
          IF Tracked(product)
          THEN [q EXCEPT !.pc = "upd_save", !.doc =
                 [product EXCEPT
                    !.quantity = product.quantity - item.quantity,
                    !.salesCount = product.salesCount + item.quantity,
                    !.salesRevenue =
                      product.salesRevenue + product.price * item.quantity]]
          ELSE AfterItem(q, Len(q.items), "upd_read", Finished(q, "created"))]
  /\ UNCHANGED <<products, orders, restores, par, foreign>>

\* product.save() of the three counters the loops modify (quantities are
\* >= 1 and prices > 0 here, so all three paths are modified)
SaveCounters(p, doc) ==
  [products EXCEPT ![p] =
     [@ EXCEPT !.quantity = doc.quantity, !.salesCount = doc.salesCount,
               !.salesRevenue = doc.salesRevenue]]

\* stock update loop: product.save()
UpdSave(r) ==
  /\ req[r].pc = "upd_save"
  /\ LET q == req[r]
         item == q.items[q.i]
         saved == [q EXCEPT !.applied = q.applied + 1]
     IN IF ProductValid(q.doc)
        THEN /\ products' = SaveCounters(item.product, q.doc)
             /\ req' = [req EXCEPT ![r] =
                  AfterItem(saved, Len(q.items), "upd_read",
                            Finished(saved, "created"))]
        ELSE /\ products' = products
             /\ req' = [req EXCEPT ![r] = Finished(q, "ServerError")]
  /\ UNCHANGED <<orders, restores, par, foreign>>

\* ------------------------------------------ PUT /api/orders/:id/status
\* `status === 'cancelled'` alone
RestoreOnEveryCancel(s, order) == s = "cancelled"

\* `status === 'cancelled' && !order.cancelledAt`
NeedsRestore(s, order) == s = "cancelled" /\ order.cancelledAt = 0

\* the assignments with `status === 'delivered'` alone as the second guard
TransitionRestampsDelivered(order, s, now) ==
  [order EXCEPT
     !.status = s,
     !.shippedAt = IF s = "shipped" /\ order.shippedAt = 0 THEN now ELSE @,
     !.deliveredAt = IF s = "delivered" THEN now ELSE @,
     !.cancelledAt = IF NeedsRestore(s, order) THEN now ELSE @]

\* the assignments with `status === 'shipped'` alone as the first guard
TransitionRestampsShipped(order, s, now) ==
  [order EXCEPT
     !.status = s,
     !.shippedAt = IF s = "shipped" THEN now ELSE @,
     !.deliveredAt = IF s = "delivered" /\ order.deliveredAt = 0 THEN now ELSE @,
     !.cancelledAt = IF NeedsRestore(s, order) THEN now ELSE @]

\* the in-memory order after `order.status = status` and the three
\* timestamp assignments
Transition(order, s, now) ==
  [order EXCEPT
     !.status = s,
     !.shippedAt = IF s = "shipped" /\ order.shippedAt = 0 THEN now ELSE @,
     !.deliveredAt = IF s = "delivered" /\ order.deliveredAt = 0 THEN now ELSE @,
     !.cancelledAt = IF NeedsRestore(s, order) THEN now ELSE @]

\* a save that writes the status and leaves the timestamps out
ModifiedStatusOnly(order, odoc) ==
  {f \in {"status"} : odoc.status # order.status}

\* the paths of the in-memory order that differ from the loaded one
Modified(order, odoc) ==
  {f \in {"status", "shippedAt", "deliveredAt", "cancelledAt"} :
     CASE f = "status" -> odoc.status # order.status
       [] f = "shippedAt" -> odoc.shippedAt # order.shippedAt
       [] f = "deliveredAt" -> odoc.deliveredAt # order.deliveredAt
       [] OTHER -> odoc.cancelledAt # order.cancelledAt}

\* both tracking fields assigned whether supplied or not
WithTrackingAlways(order, tracking) ==
  [order EXCEPT !.trackingNumber = tracking.trackingNumber,
                !.estimatedDelivery = tracking.estimatedDelivery]

\* `if (trackingNumber) ...` and `if (estimatedDelivery) ...`
WithTracking(order, tracking) ==
  [order EXCEPT
     !.trackingNumber =
       IF tracking.trackingNumber # "" THEN tracking.trackingNumber ELSE @,
     !.estimatedDelivery =
       IF tracking.estimatedDelivery # 0 THEN tracking.estimatedDelivery ELSE @]

\* After the restore loop the tracking fields are assigned and order.save()
\* is called: Mongoose runs the pre('save') hook, which goes to the store for
\* a number only when the order has none
BeforeSave(q) ==
  LET odoc == WithTracking(q.odoc, q.tracking)
      mod == q.mod
               \cup (IF odoc.trackingNumber # q.odoc.trackingNumber
                     THEN {"trackingNumber"} ELSE {})
               \cup (IF odoc.estimatedDelivery # q.odoc.estimatedDelivery
                     THEN {"estimatedDelivery"} ELSE {})
      t == [q EXCEPT !.odoc = odoc, !.mod = mod, !.i = 0, !.doc = NoDoc]
  IN IF NumberUnset(odoc.orderNumber) THEN [t EXCEPT !.pc = "count"]
     ELSE [t EXCEPT !.pc = "save"]

\* The request arrives: express-validator's status check, Order.findById,
\* then the synchronous status and timestamp assignments.
StartStatusWith(r, o, s, tracking) ==
  /\ CanStart(r)
  /\ LET q == [Idle EXCEPT !.kind = "status", !.order = o, !.status = s,
                           !.tracking = tracking]
         order == orders[o]
         odoc == Transition(order, s, Now(r))
         loaded == [q EXCEPT !.odoc = odoc, !.mod = Modified(order, odoc)]
     IN req' = [req EXCEPT ![r] =
          IF s \notin ValidStatuses THEN Finished(q, "InvalidStatus")
          ELSE IF ~order.exists THEN Finished(q, "NotFound")
          ELSE IF NeedsRestore(s, order) /\ Len(order.items) > 0
          THEN [loaded EXCEPT !.pc = "rst_read", !.i = 1]
          ELSE BeforeSave(loaded)]
  /\ UNCHANGED <<products, orders, restores, par, foreign>>

\* an UpdateStatus request with no tracking field
StartStatus(r, o, s) == StartStatusWith(r, o, s, NoTracking)

\* restore loop: Product.findById and the in-memory update
RstRead(r) ==
  /\ req[r].pc = "rst_read"
  /\ LET q == req[r]
         item == q.odoc.items[q.i]
         product == Lookup(item.product)
     IN req' = [req EXCEPT ![r] =
          IF Tracked(product)
          THEN [q EXCEPT !.pc = "rst_save", !.doc =
                 [product EXCEPT
                    !.quantity = product.quantity + item.quantity,
                    !.salesCount = product.salesCount - item.quantity,
                    !.salesRevenue =
                      product.salesRevenue - item.price * item.quantity]]
          ELSE AfterItem(q, Len(q.odoc.items), "rst_read", BeforeSave(q))]
  /\ UNCHANGED <<products, orders, restores, par, foreign>>

\* restore loop: product.save()
RstSave(r) ==
  /\ req[r].pc = "rst_save"
  /\ LET q == req[r]
         item == q.odoc.items[q.i]
         saved == [q EXCEPT !.applied = q.applied + 1]
     IN IF ProductValid(q.doc)
        THEN /\ products' = SaveCounters(item.product, q.doc)
             /\ req' = [req EXCEPT ![r] =
                  AfterItem(saved, Len(q.odoc.items), "rst_read",
                            BeforeSave(saved))]
             /\ restores' = [restores EXCEPT ![q.order] =
                  IF q.applied = 0 THEN @ + 1 ELSE @]
        ELSE /\ products' = products
             /\ req' = [req EXCEPT ![r] = Finished(q, "ServerError")]
             /\ restores' = restores
  /\ UNCHANGED <<orders, par, foreign>>

\* order.save(): the modified paths are written; a regenerated orderNumber
\* goes through the unique index
SaveOrder(r) ==
  /\ req[r].pc = "save"
  /\ LET q == req[r]
     IN IF "orderNumber" \in q.mod => UniqueIndexAllows(q.odoc.orderNumber)
        THEN /\ orders' = [orders EXCEPT ![q.order] =
                  [@ EXCEPT
                     !.status = IF "status" \in q.mod THEN q.odoc.status ELSE @,
                     !.shippedAt =
                       IF "shippedAt" \in q.mod THEN q.odoc.shippedAt ELSE @,
                     !.deliveredAt =
                       IF "deliveredAt" \in q.mod THEN q.odoc.deliveredAt ELSE @,
                     !.cancelledAt =
                       IF "cancelledAt" \in q.mod THEN q.odoc.cancelledAt ELSE @,
                     !.orderNumber =
                       IF "orderNumber" \in q.mod THEN q.odoc.orderNumber ELSE @,
                     !.trackingNumber =
                       IF "trackingNumber" \in q.mod THEN q.odoc.trackingNumber
                       ELSE @,
                     !.estimatedDelivery =
                       IF "estimatedDelivery" \in q.mod
                       THEN q.odoc.estimatedDelivery ELSE @]]
             /\ req' = [req EXCEPT ![r] = Finished(q, "updated")]
        ELSE /\ orders' = orders
             /\ req' = [req EXCEPT ![r] = Finished(q, "ServerError")]
  /\ UNCHANGED <<products, restores, par, foreign>>

\* ------------------------------------------------ PUT /api/products/:id
\* `if (name) product.name = name`, `if (price) product.price = ...`,
\* `if (stock) product.stock = {...}` and
\* `if (isActive !== undefined) product.isActive = isActive`
Patched(product, patch) ==
  [product EXCEPT
     !.name = IF patch.name # "" THEN patch.name ELSE @,
     !.price = IF patch.price # 0 THEN patch.price ELSE @,
     !.trackInventory = IF patch.track = "keep" THEN @ ELSE patch.track = "on",
     !.isActive = IF patch.active = "keep" THEN @ ELSE patch.active = "on"]

\* The request arrives: Product.findById and the assignments.
StartProduct(r, p, patch) ==
  /\ CanStart(r)
  /\ LET q == [Idle EXCEPT !.kind = "product", !.product = p, !.patch = patch]
         product == products[p]
         doc == Patched(product, patch)
     IN req' = [req EXCEPT ![r] =
          IF ~product.exists THEN Finished(q, "NotFound")
          ELSE [q EXCEPT !.pc = "psave", !.doc = doc, !.mod =
                  {f \in {"name", "price", "stock", "isActive"} :
                     CASE f = "name" -> doc.name # product.name
                       [] f = "price" -> doc.price # product.price
                       [] f = "stock" -> doc.trackInventory # product.trackInventory
                       [] OTHER -> doc.isActive # product.isActive}]]
  /\ UNCHANGED <<products, orders, restores, par, foreign>>

\* product.save(): price, and the stock object as a whole, when modified
SaveProduct(r) ==
  /\ req[r].pc = "psave"
  /\ LET q == req[r]
     IN IF ProductValid(q.doc)
        THEN /\ products' = [products EXCEPT ![q.product] =
                  [@ EXCEPT
                     !.name = IF "name" \in q.mod THEN q.doc.name ELSE @,
                     !.price = IF "price" \in q.mod THEN q.doc.price ELSE @,
                     !.quantity = IF "stock" \in q.mod THEN q.doc.quantity ELSE @,
                     !.trackInventory =
                       IF "stock" \in q.mod THEN q.doc.trackInventory ELSE @,
                     !.isActive =
                       IF "isActive" \in q.mod THEN q.doc.isActive ELSE @]]
             /\ req' = [req EXCEPT ![r] = Finished(q, "updated")]
        ELSE /\ products' = products
             /\ req' = [req EXCEPT ![r] = Finished(q, "ServerError")]
  /\ UNCHANGED <<orders, restores, par, foreign>>

\* ------------------------------------------------------- specifications
\* a request arrives, with a body drawn from the given sets
Arrive(lists, payments, statuses, prods, patches) ==
  \/ \E r \in Req :
       /\ CanStart(r)
       /\ \E items \in lists, t \in BOOLEAN, payment \in payments :
            StartCreate(r, items, t, payment, DefaultPricing)
  \/ \E r \in Req :
       /\ CanStart(r)
       /\ \E o \in 1 .. r - 1, s \in statuses : StartStatus(r, o, s)
  \/ \E r \in Req :
       /\ CanStart(r)
       /\ \E p \in prods, patch \in patches : StartProduct(r, p, patch)

\* a handler in flight resumes after an await
Resume ==
  \/ \E r \in Req : ValidateItem(r)
  \/ \E r \in Req : CountOrders(r)
  \/ \E r \in Req : ProbeNumber(r)
  \/ \E r \in Req : InsertOrder(r)
  \/ \E r \in Req : UpdRead(r)
  \/ \E r \in Req : UpdSave(r)
  \/ \E r \in Req : RstRead(r)
  \/ \E r \in Req : RstSave(r)
  \/ \E r \in Req : SaveOrder(r)
  \/ \E r \in Req : SaveProduct(r)

\* requests interleave, MaxPar at a time
Next == Arrive(ConcLists, ConcPayments, ConcStatuses, ConcProducts, ConcPatches) \/ Resume

Spec == Init /\ [][Next]_vars

\* requests run one after another
NextSeq == Arrive(ItemLists, SeqPayments, StatusInputs, Products, Patches) \/ Resume

SpecSeq == InitSeq /\ [][NextSeq]_vars

\* One CreateOrder request on its own, with any pricing object.
NextPricing ==
  \/ \E items \in ConcLists, t \in BOOLEAN, pricing \in PricingInputs :
       StartCreate(1, items, t, NoPayment, pricing)
  \/ \E r \in Req : ValidateItem(r)
  \/ \E r \in Req : CountOrders(r)
  \/ \E r \in Req : ProbeNumber(r)
  \/ \E r \in Req : InsertOrder(r)
  \/ \E r \in Req : UpdRead(r)
  \/ \E r \in Req : UpdSave(r)

SpecPricing == InitSeq /\ [][NextPricing]_vars

\* the bodies of PUT /api/products/:id that change the price only
PricePatches == {patch \in Patches : patch.track = "keep" /\ patch.active = "keep"}

\* CreateOrder requests and price updates, interleaving.
NextSnapshot ==
  \/ \E r \in Req :
       /\ CanStart(r)
       /\ \E items \in ConcLists, t \in BOOLEAN :
            StartCreate(r, items, t, NoPayment, DefaultPricing)
  \/ \E r \in Req :
       /\ CanStart(r)
       /\ \E p \in ConcProducts, patch \in PricePatches : StartProduct(r, p, patch)
  \/ \E r \in Req : ValidateItem(r)
  \/ \E r \in Req : CountOrders(r)
  \/ \E r \in Req : ProbeNumber(r)
  \/ \E r \in Req : InsertOrder(r)
  \/ \E r \in Req : UpdRead(r)
  \/ \E r \in Req : UpdSave(r)
  \/ \E r \in Req : SaveProduct(r)

SpecSnapshot == Init /\ [][NextSnapshot]_vars

\* the statuses of the UpdateStatus requests that carry tracking fields
TrackingStatuses == {"shipped", "delivered", "cancelled"}

\* CreateOrder requests with any payment object, UpdateStatus requests with
\* any tracking fields, and updates of a product's price or name, interleaving.
NextTracking ==
  \/ \E r \in Req :
       /\ CanStart(r)
       /\ \E items \in ConcLists, payment \in Payments :
            StartCreate(r, items, FALSE, payment, DefaultPricing)
  \/ \E r \in Req :
       /\ CanStart(r)
       /\ \E o \in 1 .. r - 1, s \in TrackingStatuses, tracking \in TrackingInputs :
            StartStatusWith(r, o, s, tracking)
  \/ \E r \in Req :
       /\ CanStart(r)
       /\ \E p \in ConcProducts, patch \in SnapshotPatches : StartProduct(r, p, patch)
  \/ Resume

SpecTracking == Init /\ [][NextTracking]_vars

\* the number the pre-save hook gives to an order, run from countDocuments
\* to the end of the probe loop with nothing in between: the first free one
\* from count + 1 on
FirstFree(count) ==
  CHOOSE n \in count + 1 .. count + 1 + MaxReq :
    /\ NumberFree(SeqNumber(FALSE, n))
    /\ \A k \in count + 1 .. n - 1 : ~NumberFree(SeqNumber(FALSE, k))

\* Another client's CreateOrder request, for a product other than the
\* modelled ones, runs from its countDocuments to its insert while a
\* modelled request is suspended between its own countDocuments and its
\* insert (an order inserted earlier is counted by the modelled request, one
\* inserted later is not seen by it).
ForeignCreate ==
  /\ \E r \in Req : req[r].pc \in {"probe", "insert"}
  /\ Cardinality(foreign) < MaxForeign
  /\ foreign' = foreign \cup
       {FirstFree(Cardinality({o \in Req : orders[o].exists}) + Cardinality(foreign))}
  /\ UNCHANGED <<products, orders, req, restores, par>>

\* the steps of a CreateOrder handler after its validation
CreateSteps ==
  \/ \E r \in Req : CountOrders(r)
  \/ \E r \in Req : ProbeNumber(r)
  \/ \E r \in Req : InsertOrder(r)
  \/ \E r \in Req : UpdRead(r)
  \/ \E r \in Req : UpdSave(r)

\* One CreateOrder request among the creations of other clients.
NextProbe ==
  \/ \E t \in BOOLEAN :
       StartCreate(1, <<[product |-> "p1", quantity |-> 1]>>, t, NoPayment,
                   DefaultPricing)
  \/ CreateSteps
  \/ ForeignCreate

\* The event loop resumes a handler whose store operation has completed, and
\* the store completes every operation: a handler step that stays enabled
\* is taken.
SpecProbe == InitSeq /\ [][NextProbe]_vars /\ WF_vars(CreateSteps)

\* ---------------------------------------------------------------- claims
Started == {r \in Req : req[r].pc # "idle"}

Existing == {o \in Req : orders[o].exists}

\* the responses of the validation phase of CreateOrder
Rejections ==
  {"ValidationError", "InvalidPayment", "MissingTransactionId", "MissingProductId",
   "ProductNotFound", "ProductUnavailable", "InsufficientStock"}

\* quantity of product p over the items of an order
RECURSIVE QtyOf(_, _)
QtyOf(items, p) ==
  IF items = <<>> THEN 0
  ELSE (IF Head(items).product = p THEN Head(items).quantity ELSE 0)
       + QtyOf(Tail(items), p)

\* quantity of product p over the orders of the requests in S
RECURSIVE Reserved(_, _)
Reserved(S, p) ==
  IF S = {} THEN 0
  ELSE LET r == CHOOSE x \in S : TRUE
       IN QtyOf(orders[r].items, p) + Reserved(S \ {r}, p)

\* C1: the stored stock.quantity of a tracked product is never negative,
\* however the CreateOrder handlers interleave.
StockNeverNegative ==
  \A p \in Products : products[p].trackInventory => products[p].quantity >= 0

\* C1 witness: two non-test creations overlapped, both orders were inserted,
\* and the stock save of one was refused because it would have gone below 0.
RefusedNegativeSave ==
  \E a, b \in Req :
    /\ a # b
    /\ orders[a].exists /\ ~orders[a].isTest /\ req[a].result = "created"
    /\ orders[b].exists /\ ~orders[b].isTest /\ req[b].result = "ServerError"
    /\ products["p1"].quantity = 0

\* C2: once the non-test creations of a run have all responded, each with
\* success or with a refusal for insufficient stock, for every product the
\* quantities of those that succeeded sum to at most the initial stock, and
\* the stock left is the initial stock minus that sum.
NoOversell ==
  (/\ Quiescent
   /\ Started # {}
   /\ \A r \in Started :
        /\ req[r].kind = "create" /\ ~req[r].isTest
        /\ req[r].result \in {"created", "InsufficientStock"})
  => LET ok == {r \in Started : req[r].result = "created"}
     IN \A p \in Products :
          /\ Reserved(ok, p) <= InitStock
          /\ products[p].quantity = InitStock - Reserved(ok, p)

\* C3: a CreateOrder request that has responded either succeeded, with its
\* order persisted, or failed, with no order persisted and no product saved.
AllOrNothing ==
  \A r \in Req :
    (req[r].kind = "create" /\ req[r].pc = "done")
    => IF req[r].result = "created" THEN orders[r].exists
       ELSE ~orders[r].exists /\ req[r].applied = 0

\* C4: while a cancellation of an order whose cancelledAt is already set is
\* in flight, no step changes any product (requests run one after another).
SecondCancelKeepsCounters ==
  [][(\E r \in Req :
        /\ InFlight(r) /\ req[r].kind = "status" /\ req[r].status = "cancelled"
        /\ orders[req[r].order].cancelledAt # 0)
     => products' = products]_vars

\* C4 witness: a cancellation is about to save an order that an earlier
\* request cancelled and restored.
SecondCancelInFlight ==
  \E r \in Req :
    /\ req[r].kind = "status" /\ req[r].pc = "save" /\ req[r].status = "cancelled"
    /\ orders[req[r].order].status = "cancelled"
    /\ orders[req[r].order].cancelledAt # 0
    /\ restores[req[r].order] = 1

\* C5: the restore loop writes products for a given order in at most one
\* request.
RestoreAtMostOnce == \A o \in Req : restores[o] <= 1

\* C6: when every order of a run was created successfully and has been
\* cancelled, every product's counters are back at their initial values.
CancelUndoesCreate ==
  (/\ Quiescent
   /\ Existing # {}
   /\ \A o \in Existing :
        orders[o].status = "cancelled" /\ req[o].result = "created")
  => \A p \in Products :
       /\ products[p].quantity = InitStock
       /\ products[p].salesCount = 0
       /\ products[p].salesRevenue = 0

\* C7: no two persisted orders have the same orderNumber.
UniqueOrderNumbers ==
  \A a, b \in Existing : a # b => orders[a].orderNumber # orders[b].orderNumber

\* C7 witness: a test and a non-test order are persisted, and the insert of a
\* third creation was refused by the unique index.
DuplicateRefused ==
  \E a, b, c \in Req :
    /\ orders[a].exists /\ orders[a].isTest
    /\ orders[b].exists /\ ~orders[b].isTest
    /\ req[c].kind = "create" /\ req[c].result = "ServerError"
    /\ ~orders[c].exists

\* C8: a CreateOrder request that passed validation ends with its order
\* persisted under an order number.
NumberingNeverFails ==
  \A r \in Req :
    (req[r].kind = "create" /\ req[r].pc = "done"
       /\ req[r].result \notin Rejections)
    => orders[r].exists /\ orders[r].orderNumber.kind \in {"seq", "clock"}

\* C9: the status of a delivered or cancelled order never changes.
TerminalStatusesStay ==
  [][\A o \in Req :
       (orders[o].exists /\ orders[o].status \in {"delivered", "cancelled"})
       => orders'[o].status = orders[o].status]_vars

\* C10: an order whose status is not pending never becomes pending.
NeverBackToPending ==
  [][\A o \in Req :
       (orders[o].exists /\ orders[o].status # "pending")
       => orders'[o].status # "pending"]_vars

\* C11: when no request is in flight, after CreateOrder and UpdateStatus
\* requests only, every tracked product has salesCount equal to the quantity
\* of it over the orders that are not cancelled, and stock equal to the
\* initial stock minus that quantity.
LedgerMatchesOrders ==
  (/\ Quiescent
   /\ \A r \in Started : req[r].kind \in {"create", "status"})
  => LET live == {o \in Existing : orders[o].status # "cancelled"}
     IN \A p \in Products :
          products[p].trackInventory
          => /\ products[p].salesCount = Reserved(live, p)
             /\ products[p].quantity = InitStock - Reserved(live, p)

\* C12: an UpdateStatus request with a status outside the six recognised
\* values is answered InvalidStatus at once, and the step changes no order
\* and no product.
InvalidStatusRejected ==
  [][\A r, o \in Req :
       StartStatus(r, o, "refunded")
       => /\ req'[r].pc = "done" /\ req'[r].result = "InvalidStatus"
          /\ orders' = orders /\ products' = products]_vars

\* C12 witness: an UpdateStatus request was answered InvalidStatus while an
\* order was there, shipped.
InvalidStatusAnswered ==
  \E r, o \in Req :
    /\ req[r].kind = "status" /\ req[r].result = "InvalidStatus"
    /\ o < r /\ orders[o].exists /\ orders[o].status = "shipped"
    /\ orders[o].shippedAt # 0

\* C13: a CreateOrder request answered with a validation error has persisted
\* no order and saved no product, and no step of its validation phase
\* changes a product or an order.
RejectionChangesNothing ==
  /\ [](\A r \in Req :
          (req[r].kind = "create" /\ req[r].result \in Rejections)
          => ~orders[r].exists /\ req[r].applied = 0)
  /\ [][\A r \in Req :
          (req[r].pc \in {"idle", "validate"} /\ req'[r] # req[r]
             /\ req'[r].kind = "create")
          => products' = products /\ orders' = orders]_vars

\* C13 witness: a CreateOrder request was rejected on its second item, an
\* inactive product, after its first item had passed; no order of it exists
\* and the stocks are what they were.
RejectedOnSecondItem ==
  \E r \in Req :
    /\ req[r].kind = "create" /\ req[r].result = "ProductUnavailable"
    /\ req[r].i = 2 /\ ~orders[r].exists
    /\ \A p \in Products : products[p].quantity = InitStock

\* price * quantity of product p over the items recorded on an order
RECURSIVE RevenueOf(_, _)
RevenueOf(items, p) ==
  IF items = <<>> THEN 0
  ELSE (IF Head(items).product = p THEN Head(items).price * Head(items).quantity
        ELSE 0)
       + RevenueOf(Tail(items), p)

\* C14: when the one CreateOrder request of a run has succeeded and the
\* other requests were price updates, the salesRevenue of every product is
\* the sum of price * quantity over the items recorded on the order.
RevenueMatchesSnapshot ==
  (/\ Quiescent
   /\ Cardinality({r \in Started : req[r].kind = "create"}) = 1
   /\ \A r \in Started : req[r].kind = "create" => req[r].result = "created")
  => \A p \in Products, o \in Existing :
       products[p].salesRevenue = RevenueOf(orders[o].items, p)

\* C15: a CreateOrder request with isTest = true that passed validation
\* succeeds, with its order persisted under a TEST number.
TestOrderSucceeds ==
  \A r \in Req :
    (req[r].kind = "create" /\ req[r].pc = "done" /\ req[r].isTest
       /\ req[r].result \notin Rejections)
    => /\ req[r].result = "created"
       /\ orders[r].exists /\ orders[r].orderNumber.prefix = "TEST"

\* C16: every persisted order has an order number, and no step changes the
\* order number of a persisted order.
OrderNumberKept ==
  /\ [](\A o \in Existing : orders[o].orderNumber.kind # "none")
  /\ [][\A o \in Req :
          orders[o].exists => orders'[o].orderNumber = orders[o].orderNumber]_vars

\* C16 witness: an order was saved by a status update and is processing,
\* under the number it was created with.
SavedWithItsNumber ==
  \E o, r \in Req :
    /\ orders[o].exists /\ orders[o].status = "processing"
    /\ orders[o].orderNumber = SeqNumber(orders[o].isTest, o)
    /\ req[r].kind = "status" /\ req[r].result = "updated"

\* C17: every persisted order has non-negative subtotal, shipping, tax,
\* discount and total.
PricingNonNegative ==
  \A o \in Existing :
    /\ orders[o].pricing.subtotal >= 0 /\ orders[o].pricing.shipping >= 0
    /\ orders[o].pricing.tax >= 0 /\ orders[o].pricing.discount >= 0
    /\ orders[o].pricing.total >= 0

\* C18: the total persisted with an order is the caller's pricing.total when
\* one is supplied, and otherwise final subtotal + shipping + tax - discount,
\* the final subtotal being the caller's when supplied and the sum of
\* price * quantity over the items otherwise.
TotalAsSupplied ==
  [][\A r \in Req :
       (req[r].pc = "insert" /\ ~orders[r].exists /\ orders'[r].exists)
       => LET pricing == req[r].pricing
              opt(x) == IF x.given THEN x.v ELSE 0
              sub == IF pricing.subtotal.given THEN pricing.subtotal.v
                     ELSE Subtotal(req[r].orderItems)
          IN orders'[r].pricing.total =
               IF pricing.total.given THEN pricing.total.v
               ELSE sub + opt(pricing.shipping) + opt(pricing.tax)
                      - opt(pricing.discount)]_vars

\* C19: while an UpdateStatus request whose status is the order's current
\* status is in flight, no step changes an order or a product (requests run
\* one after another).
SameStatusNoOp ==
  [][(\E r \in Req :
        /\ InFlight(r) /\ req[r].kind = "status"
        /\ req[r].status = orders[req[r].order].status)
     => orders' = orders /\ products' = products]_vars

\* C19 witness: a request to mark delivered an order that is delivered is
\* about to save it, with no modified path.
SameStatusInFlight ==
  \E r \in Req :
    /\ req[r].kind = "status" /\ req[r].pc = "save" /\ req[r].status = "delivered"
    /\ orders[req[r].order].status = "delivered"
    /\ orders[req[r].order].deliveredAt # 0
    /\ req[r].mod = {}

\* C20: once shippedAt, deliveredAt or cancelledAt of a persisted order has a
\* value, no step changes it (requests run one after another).
TimestampsSetOnce ==
  [][\A o \in Req :
       orders[o].exists
       => /\ orders[o].shippedAt # 0 => orders'[o].shippedAt = orders[o].shippedAt
          /\ orders[o].deliveredAt # 0
               => orders'[o].deliveredAt = orders[o].deliveredAt
          /\ orders[o].cancelledAt # 0
               => orders'[o].cancelledAt = orders[o].cancelledAt]_vars

\* C20 witness: a second request to mark an order shipped has loaded it with
\* shippedAt set by the first and has left the timestamp alone.
ShippedAgainInFlight ==
  \E r \in Req :
    /\ req[r].kind = "status" /\ req[r].pc = "save" /\ req[r].status = "shipped"
    /\ orders[req[r].order].shippedAt # 0
    /\ orders[req[r].order].shippedAt # Now(r)
    /\ req[r].odoc.shippedAt = orders[req[r].order].shippedAt

\* C21: no step changes the items, pricing, payment, orderNumber or isTest
\* of a persisted order, and a step changes its trackingNumber or
\* estimatedDelivery only when it is the save of an UpdateStatus request for
\* that order that supplied the field, and then to the supplied value.
OnlyStatusAndTracking ==
  [][\A o \in Req :
       orders[o].exists
       => /\ orders'[o].items = orders[o].items
          /\ orders'[o].pricing = orders[o].pricing
          /\ orders'[o].payment = orders[o].payment
          /\ orders'[o].orderNumber = orders[o].orderNumber
          /\ orders'[o].isTest = orders[o].isTest
          /\ orders'[o].trackingNumber # orders[o].trackingNumber
               => \E r \in Req :
                    /\ req[r].pc = "save" /\ req'[r].pc = "done" /\ req[r].order = o
                    /\ req[r].tracking.trackingNumber # ""
                    /\ orders'[o].trackingNumber = req[r].tracking.trackingNumber
          /\ orders'[o].estimatedDelivery # orders[o].estimatedDelivery
               => \E r \in Req :
                    /\ req[r].pc = "save" /\ req'[r].pc = "done" /\ req[r].order = o
                    /\ req[r].tracking.estimatedDelivery # 0
                    /\ orders'[o].estimatedDelivery =
                         req[r].tracking.estimatedDelivery]_vars

\* C21 witness: an UpdateStatus request without tracking fields is about to
\* save, as delivered, an order paid by bank transfer that an earlier request
\* gave a tracking number and a delivery date; only status and deliveredAt
\* are modified.
UntrackedUpdateInFlight ==
  \E r \in Req :
    /\ req[r].kind = "status" /\ req[r].pc = "save" /\ req[r].status = "delivered"
    /\ req[r].tracking = NoTracking
    /\ orders[req[r].order].trackingNumber = "TN1"
    /\ orders[req[r].order].estimatedDelivery = 7
    /\ orders[req[r].order].payment.method = "bank_transfer"
    /\ req[r].odoc.trackingNumber = "TN1"
    /\ req[r].mod = {"status", "deliveredAt"}

CreationTerminates ==
  /\ [](\A r \in Req : req[r].pc = "probe" => req[r].counter <= ProbeLimit)
  /\ \A r \in Req :
       (req[r].kind = "create" /\ InFlight(r)) ~> (req[r].pc = "done")

\* C23 witness: a creation found every candidate of its probe budget taken,
\* and its order was persisted under the fallback number.
FallbackNumberUsed ==
  \E r \in Req :
    /\ req[r].kind = "create" /\ req[r].result = "created"
    /\ orders[r].exists /\ orders[r].orderNumber.kind = "clock"
    /\ Cardinality(foreign) >= ProbeLimit

\* C24: a non-test order is persisted only if, for every tracked product,
\* the quantities of its items for that product sum to at most the
\* product's stock (requests run one after another, so the stock at the
\* insert is the stock the validation saw).
SumWithinStock ==
  [][\A r \in Req :
       (req[r].pc = "insert" /\ ~req[r].isTest
          /\ ~orders[r].exists /\ orders'[r].exists)
       => \A p \in Products :
            products[p].trackInventory
            => QtyOf(req[r].orderItems, p) <= products[p].quantity]_vars

\* C25: a persisted order that is cancelled has cancelledAt set, one that is
\* shipped has shippedAt set, one that is delivered has deliveredAt set
\* (requests run one after another).
StatusHasTimestamp ==
  \A o \in Existing :
    /\ orders[o].status = "cancelled" => orders[o].cancelledAt # 0
    /\ orders[o].status = "shipped" => orders[o].shippedAt # 0
    /\ orders[o].status = "delivered" => orders[o].deliveredAt # 0

\* C25 witness: an order went from pending to delivered without being
\* shipped: deliveredAt is set, shippedAt is not.
DeliveredUnshipped ==
  \E o \in Existing :
    /\ orders[o].status = "delivered" /\ orders[o].deliveredAt # 0
    /\ orders[o].shippedAt = 0

\* C26: as long as the requests are CreateOrder requests and cancellations,
\* every product has sales.count >= 0 and sales.revenue >= 0.
SalesNeverNegative ==
  (/\ \A r \in Started :
        \/ req[r].kind = "create"
        \/ req[r].kind = "status" /\ (InFlight(r) => req[r].status = "cancelled")
   /\ \A o \in Existing : orders[o].status \in {"pending", "cancelled"})
  => \A p \in Products :
       products[p].salesCount >= 0 /\ products[p].salesRevenue >= 0

====
